---- MODULE Spec2Model ----
(***************************************************************************)
(* planning_update.py: the recurring-task rescheduling batch job.          *)
(*                                                                         *)
(* Phase 1 walks the weekday lists of the board, filters the past-due      *)
(* "Regular" cards of each list, advances each card's due date by its      *)
(* recurrence rule until it is no longer in the past, and moves the card   *)
(* to the list named for the weekday of the new due date.  Phase 2 walks   *)
(* the lists again, sorts each list's cards by due date and pushes them    *)
(* to the bottom of the list one by one.                                   *)
(*                                                                         *)
(* Time is modelled at day resolution: a datetime is its proleptic         *)
(* Gregorian ordinal (datetime.toordinal), a timestamp on the wire is the  *)
(* text "YYYY-MM-DDT00:00:00.000Z", written here as a record [y, m, d].    *)
(***************************************************************************)
EXTENDS Integers, Sequences, FiniteSets, TLC

\* ------------------------------------------------------------------------
\* Bounds of the model
\* ------------------------------------------------------------------------

\* The board holds at most MaxCards cards.
MaxCards == 2

\* At most MaxFaults calls of the Board Service fail in a run.
MaxFaults == 1

\* ------------------------------------------------------------------------
\* Calendar arithmetic (datetime, dateutil.relativedelta)
\* ------------------------------------------------------------------------

IsLeap(y) == (y % 4 = 0 /\ y % 100 # 0) \/ y % 400 = 0

DaysInMonth(y, m) ==
  IF m = 2 THEN (IF IsLeap(y) THEN 29 ELSE 28)
  ELSE IF m \in {4, 6, 9, 11} THEN 30 ELSE 31

\* Days before January 1st of year y (datetime._days_before_year).
DaysBeforeYear(y) ==
  (y - 1) * 365 + ((y - 1) \div 4) - ((y - 1) \div 100) + ((y - 1) \div 400)

RECURSIVE DaysBeforeMonth(_, _)
DaysBeforeMonth(y, m) ==
  IF m = 1 THEN 0 ELSE DaysBeforeMonth(y, m - 1) + DaysInMonth(y, m - 1)

\* datetime.toordinal of a calendar date.
ToOrdinal(y, m, d) == DaysBeforeYear(y) + DaysBeforeMonth(y, m) + d

\* The years the model's dates fall in.
Years == 2022 .. 2024

\* The calendar date of an ordinal.
DateOf(n) ==
  LET y == CHOOSE yy \in Years :
             DaysBeforeYear(yy) < n /\ n <= DaysBeforeYear(yy + 1)
      m == CHOOSE mm \in 1 .. 12 :
             /\ DaysBeforeYear(y) + DaysBeforeMonth(y, mm) < n
             /\ n <= DaysBeforeYear(y) + DaysBeforeMonth(y, mm) + DaysInMonth(y, mm)
  IN [y |-> y, m |-> m, d |-> n - DaysBeforeYear(y) - DaysBeforeMonth(y, m)]

\* The calendar of the years of the model.
Calendar ==
  [n \in (DaysBeforeYear(2022) + 1) .. DaysBeforeYear(2025) |-> DateOf(n)]

\* datetime.fromordinal
FromOrdinal(n) == Calendar[n]

\* A due date as the Board Service sends it: JSON null, or a text.  A text
\* that is not a timestamp of the format (or names no calendar day, such as
\* 2023-02-30) is a record whose fields are no calendar date.
NullDue == [kind |-> "null", y |-> 0, m |-> 0, d |-> 0]
Stamp(y, m, d) == [kind |-> "text", y |-> y, m |-> m, d |-> d]

\* Whether datetime.strptime(w, dateformat) returns (it raises TypeError on
\* None and ValueError on a text that does not match).
StrptimeOk(w) ==
  /\ w.kind = "text"
  /\ w.y \in Years
  /\ w.m \in 1 .. 12
  /\ w.d \in 1 .. DaysInMonth(w.y, w.m)

\* datetime.strptime(w, dateformat), where it returns.
Strptime(w) == ToOrdinal(w.y, w.m, w.d)

\* due.strftime(dateformat)
Strftime(n) == LET c == FromOrdinal(n) IN Stamp(c.y, c.m, c.d)

\* A faulty weekday: Sunday as 0 (the convention of strftime's %w).
WeekdayBug(n) == n % 7

\* datetime.weekday(): Monday is 0.
Weekday(n) == (n + 6) % 7

Min(a, b) == IF a <= b THEN a ELSE b

\* dt + relativedelta(months=n), n >= 0: the year and month move, the day of
\* the month is kept, cut to the length of the new month.
AddMonths(n, months) ==
  LET c == FromOrdinal(n)
      t == (c.m - 1) + months
      y == c.y + (t \div 12)
      m == (t % 12) + 1
  IN ToOrdinal(y, m, Min(DaysInMonth(y, m), c.d))

\* dt + relativedelta(day=k): the day of the month is set to k (absolute),
\* cut to the length of the month; a k of 0 counts as not given.
SetDay(n, k) ==
  LET c == FromOrdinal(n)
  IN ToOrdinal(c.y, c.m, Min(DaysInMonth(c.y, c.m), IF k = 0 THEN c.d ELSE k))

\* The keyword arguments relativedelta accepts, of those the model uses:
\* the relative (plural) ones and one absolute (singular) one.
RelativeUnits == {"days", "weeks", "months", "years"}
AbsoluteUnits == {"day"}

\* relativedelta(**{period_type: period_len}) raises TypeError for a keyword
\* it does not know.
RelativeDeltaOk(period_type) == period_type \in RelativeUnits \cup AbsoluteUnits

\* due + relativedelta(**{period_type: period_len})
AddRelativeDelta(n, period_type, period_len) ==
  CASE period_type = "days"   -> n + period_len
    [] period_type = "weeks"  -> n + 7 * period_len
    [] period_type = "months" -> AddMonths(n, period_len)
    [] period_type = "years"  -> AddMonths(n, 12 * period_len)
    [] period_type = "day"    -> SetDay(n, period_len)

\* ------------------------------------------------------------------------
\* Data
\* ------------------------------------------------------------------------

\* The weekday names of the lists, Monday first (the source has them in
\* Russian).
list_names ==
  <<"Monday", "Tuesday", "Wednesday", "Thursday", "Friday", "Saturday", "Sunday">>

SeqToSet(s) == {s[i] : i \in 1 .. Len(s)}

\* class List
MkList(name, identifier) == [name |-> name, identifier |-> identifier]

\* class Card
MkCard(identifier, due, period_len, period_type) ==
  [identifier |-> identifier, due |-> due,
   period_len |-> period_len, period_type |-> period_type]

\* class CardToSort
MkCardToSort(identifier, due) == [identifier |-> identifier, due |-> due]

\* The notes of a card, as far as re.match(r"(\d+) (\w+)", desc) sees them:
\* the leading integer and the word after it, or no match at all.
Notes(num, unit) == [matches |-> TRUE, num |-> num, unit |-> unit]
NoRuleNotes == [matches |-> FALSE, num |-> 0, unit |-> ""]

\* The cards a board may hold at the start of a run: labels, due, notes.
CardKinds ==
  { [labels |-> {"Regular"}, due |-> Stamp(2023, 1, 1),  desc |-> Notes(1, "weeks")],
    [labels |-> {"Regular"}, due |-> Stamp(2023, 1, 1),  desc |-> Notes(10, "days")],
    [labels |-> {"Regular"}, due |-> Stamp(2022, 10, 31), desc |-> Notes(1, "months")],
    [labels |-> {"Regular"}, due |-> Stamp(2023, 1, 1),  desc |-> Notes(0, "days")],
    [labels |-> {"Regular"}, due |-> Stamp(2023, 1, 1),  desc |-> Notes(1, "day")],
    [labels |-> {"Regular"}, due |-> Stamp(2023, 1, 1),  desc |-> Notes(1, "fortnights")],
    [labels |-> {"Regular"}, due |-> Stamp(2023, 1, 1),  desc |-> NoRuleNotes],
    [labels |-> {"Regular"}, due |-> NullDue,            desc |-> Notes(1, "weeks")],
    [labels |-> {"Regular"}, due |-> Stamp(2023, 2, 5),  desc |-> Notes(1, "weeks")],
    [labels |-> {"regular", "Home"}, due |-> Stamp(2023, 1, 1), desc |-> Notes(1, "weeks")],
    [labels |-> {}, due |-> Stamp(2023, 2, 10), desc |-> NoRuleNotes],
    [labels |-> {}, due |-> Stamp(2023, 2, 30), desc |-> NoRuleNotes] }

\* The moments a run may start at (datetime.utcnow() at import).
StartTimes == {ToOrdinal(2023, 1, 20), ToOrdinal(2023, 1, 31)}

\* The lists a board may have, in the order listLists returns them; a
\* list's identifier is its place on the board.
NamedLists(names) == [i \in 1 .. Len(names) |-> MkList(names[i], i)]

Boards ==
  { NamedLists(list_names),
    NamedLists(SubSeq(list_names, 1, 6)),
    NamedLists(<<"Backlog", "Sunday">> \o SubSeq(list_names, 1, 6)) }

VARIABLES
  current_time,   \* the module-level current_time, set once at start
  boardLists,     \* Board Service: the lists of the board
  cardsIn,        \* Board Service: list identifier -> its cards, top to bottom
  cardData,       \* Board Service: card identifier -> labels, due, desc, dueComplete
  pc,             \* where main is
  lists,          \* main: lists
  l,              \* main: the index in lists of the loop variable l
  cards,          \* main: cards
  k,              \* main: the index in cards of the loop variable card
  fetched,        \* the response of the last get_cards call
  due,            \* process_card: due
  passes,         \* process_card: the passes of the while loop so far, modulo 2
  relocations,    \* the relocation requests sent so far, oldest first
  repositions,    \* the reposition requests sent so far, oldest first
  gets,           \* the listLists and listTasks requests sent so far
  failures,       \* the requests that failed so far
  run,            \* 1 in the first run of the job, 2 in a second one
  left            \* the board as the first run left it, in a second run

vars == <<current_time, boardLists, cardsIn, cardData, pc, lists, l, cards, k,
          fetched, due, passes, relocations, repositions, gets, failures,
          run, left>>

boardVars == <<boardLists, cardsIn, cardData>>

\* The list a card is in.
ListOf(c) == CHOOSE i \in DOMAIN cardsIn : c \in SeqToSet(cardsIn[i])

\* Internal time of a card's due date on the board (cards whose due parses).
DueOf(c) == Strptime(cardData[c].due)

\* The state main starts in: a start time, a board and its cards, each
\* card in the first or the last list of the board.
InitWith(times, boards, kinds, most) ==
  /\ current_time \in times
  /\ boardLists \in boards
  /\ \E n \in 0 .. most :
       \E kind \in [1 .. n -> kinds] :
         \E home \in [1 .. n -> {1, Len(boardLists)}] :
           /\ cardData = [c \in 1 .. n |->
                            [labels |-> kind[c].labels, due |-> kind[c].due,
                             desc |-> kind[c].desc, dueComplete |-> TRUE]]
           /\ cardsIn = [i \in 1 .. Len(boardLists) |->
                           LET InList(c) == home[c] = i
                           IN SelectSeq([c \in 1 .. n |-> c], InList)]
  /\ pc = "start"
  /\ lists = <<>>
  /\ l = 0
  /\ cards = <<>>
  /\ k = 0
  /\ fetched = <<>>
  /\ due = 0
  /\ passes = 0
  /\ relocations = <<>>
  /\ repositions = <<>>
  /\ gets = <<>>
  /\ failures = <<>>
  /\ run = 1
  /\ left = <<>>

Init == InitWith(StartTimes, Boards, CardKinds, MaxCards)

\* ------------------------------------------------------------------------
\* Board Service
\* ------------------------------------------------------------------------

\* Requester.get_cards: the cards of a list, top to bottom, as JSON.
ListTasks(list_id) ==
  [i \in 1 .. Len(cardsIn[list_id]) |->
     LET c == cardsIn[list_id][i]
     IN [id |-> c, labels |-> cardData[c].labels,
         due |-> cardData[c].due, desc |-> cardData[c].desc]]

\* The requests of Requester.get_lists and Requester.get_cards; loop names
\* the for loop of main the request is sent in.
ListsRequest == [op |-> "lists", loop |-> "", list |-> 0]
CardsRequest(loop, list_id) == [op |-> "cards", loop |-> loop, list |-> list_id]

Without(s, c) == LET Other(x) == x # c IN SelectSeq(s, Other)

InsertAt(s, pos, c) == SubSeq(s, 1, pos - 1) \o <<c>> \o SubSeq(s, pos, Len(s))

\* ------------------------------------------------------------------------
\* get_lists, filter_out_cards
\* ------------------------------------------------------------------------

\* A faulty line 116: every list of the response is kept.
WeekdayListsBug(response) == response

\* get_lists: the lists of the board whose name is a weekday name, in the
\* order of the response.
WeekdayLists(response) ==
  LET Named(x) == x.name \in SeqToSet(list_names) IN SelectSeq(response, Named)

\* is_regular
IsRegular(c) == "Regular" \in c.labels

\* A faulty line 149: a due equal to now counts as past due.
NotYetDueBug(d, now) == d > now

\* filter_out_cards, line 149: the card is not past due.
NotYetDue(d, now) == d >= now

\* The locals period_len and period_type of filter_out_cards before the
\* first assignment to them.
Unbound == [bound |-> FALSE, len |-> 0, type |-> ""]

\* filter_out_cards from the i-th card of the response on: out is
\* cards_to_process so far, period the locals period_len and period_type.
\* The result is the list returned, or raised = TRUE when line 157 reads the
\* unbound locals (UnboundLocalError, which nothing catches).
RECURSIVE FilterFrom(_, _, _, _, _)
FilterFrom(response, i, out, period, now) ==
  IF i > Len(response) THEN [raised |-> FALSE, cards |-> out]
  ELSE
    LET c == response[i] IN
    IF ~IsRegular(c) THEN FilterFrom(response, i + 1, out, period, now)
    ELSE IF ~StrptimeOk(c.due) THEN FilterFrom(response, i + 1, out, period, now)
    ELSE IF NotYetDue(Strptime(c.due), now)
      THEN FilterFrom(response, i + 1, out, period, now)
    ELSE
      LET p == IF c.desc.matches
                 THEN [bound |-> TRUE, len |-> c.desc.num, type |-> c.desc.unit]
                 ELSE period
      IN IF ~p.bound THEN [raised |-> TRUE, cards |-> out]
         ELSE FilterFrom(response, i + 1,
                         Append(out, MkCard(c.id, Strptime(c.due), p.len, p.type)),
                         p, now)

filter_out_cards(response, now) == FilterFrom(response, 1, <<>>, Unbound, now)

\* ------------------------------------------------------------------------
\* main, phase 1
\* ------------------------------------------------------------------------

\* A faulty main: one loop over lists that updates and sorts each list in turn.
ListDoneBug(loop, idx) ==
  IF loop = "update" THEN [pc |-> "sort", l |-> idx]
  ELSE [pc |-> "update", l |-> idx + 1]

\* Where main goes on when the inner loop over the cards of lists[idx] has
\* ended: to the next list of the same loop ("update" is the first for loop
\* over lists, "sort" the second).
ListDone(loop, idx) == [pc |-> loop, l |-> idx + 1]

\* A faulty inner loop: the card after the idx-th one is passed over.
AfterCardSkips(loop, inner, cs, lidx, idx) ==
  IF idx + 1 < Len(cs)
    THEN [pc |-> inner, l |-> lidx, k |-> idx + 2]
    ELSE [pc |-> ListDone(loop, lidx).pc, l |-> ListDone(loop, lidx).l, k |-> 0]

\* Where main goes on after the idx-th card of cs: to the next card of the
\* list (inner names the body of the inner loop), or to the next list.
AfterCard(loop, inner, cs, lidx, idx) ==
  IF idx < Len(cs)
    THEN [pc |-> inner, l |-> lidx, k |-> idx + 1]
    ELSE [pc |-> ListDone(loop, lidx).pc, l |-> ListDone(loop, lidx).l, k |-> 0]

\* process_card, line 163: due = card.due, on entry.
EntryDue(cs, at) == IF at.pc = "advance" THEN cs[at.k].due ELSE 0

\* main, line 208: lists = get_lists(requester)
GetLists ==
  /\ pc = "start"
  /\ lists' = WeekdayLists(boardLists)
  /\ l' = 1
  /\ pc' = "update"
  /\ gets' = Append(gets, ListsRequest)
  /\ UNCHANGED <<current_time, boardVars, cards, k, fetched, due, passes,
                 relocations, repositions, failures, run, left>>

\* main, lines 210-215: the next list of the first loop; its cards are
\* fetched and filtered, and process_card is entered for the first of them.
FetchAndFilter ==
  /\ pc = "update"
  /\ l <= Len(lists)
  /\ LET response == ListTasks(lists[l].identifier)
         result == filter_out_cards(response, current_time)
         at == AfterCard("update", "advance", result.cards, l, 0)
     IN /\ fetched' = response
        /\ IF result.raised
             THEN /\ pc' = "aborted"
                  /\ UNCHANGED <<cards, l, k, due>>
             ELSE /\ cards' = result.cards
                  /\ pc' = at.pc
                  /\ l' = at.l
                  /\ k' = at.k
                  /\ due' = EntryDue(result.cards, at)
  /\ gets' = Append(gets, CardsRequest("update", lists[l].identifier))
  /\ UNCHANGED <<current_time, boardVars, lists, passes, relocations, repositions,
                 failures, run, left>>

\* ------------------------------------------------------------------------
\* process_card
\* ------------------------------------------------------------------------

\* A faulty line 164: the loop goes on while due <= now.
InPastBug(d, now) == d <= now

\* process_card, line 164: the condition of the while loop.
InPast(d, now) == d < now

\* A faulty else branch of line 175: when no list has the name, every
\* list is a target and the first of them is taken.
TargetListsBug(ls, d) ==
  LET Matches(x) == x.name = list_names[Weekday(d) + 1]
  IN IF SelectSeq(ls, Matches) = <<>> THEN ls ELSE SelectSeq(ls, Matches)

\* process_card, lines 170-177: the lists whose name is the weekday name of
\* d; the for loop takes the first of them, and its else branch runs when
\* there is none.
TargetLists(ls, d) ==
  LET Matches(x) == x.name = list_names[Weekday(d) + 1] IN SelectSeq(ls, Matches)

\* A faulty line 182: the request carries the card's old due.
RelocationRequestBug(c, d, list_id) ==
  [card |-> c, due |-> Strftime(c.due), dueComplete |-> FALSE, idList |-> list_id]

\* The body of the request of line 182.
RelocationRequest(c, d, list_id) ==
  [card |-> c, due |-> Strftime(d), dueComplete |-> FALSE, idList |-> list_id]

\* Control after process_card returns.
Return(at) ==
  /\ pc' = at.pc
  /\ l' = at.l
  /\ k' = at.k
  /\ due' = EntryDue(cards, at)
  /\ passes' = 0

\* process_card, lines 164-165: one pass of the while loop.
Advance ==
  /\ pc = "advance"
  /\ InPast(due, current_time)
  /\ RelativeDeltaOk(cards[k].period_type)
  /\ due' = AddRelativeDelta(due, cards[k].period_type, cards[k].period_len)
  /\ passes' = 1 - passes
  /\ UNCHANGED <<current_time, boardVars, pc, lists, l, cards, k, fetched,
                 relocations, repositions, gets, failures, run, left>>

\* process_card, lines 165-168: relativedelta raises, the card is given up.
AdvanceRaises ==
  /\ pc = "advance"
  /\ InPast(due, current_time)
  /\ ~RelativeDeltaOk(cards[k].period_type)
  /\ Return(AfterCard("update", "advance", cards, l, k))
  /\ UNCHANGED <<current_time, boardVars, lists, cards, fetched,
                 relocations, repositions, gets, failures, run, left>>

\* process_card, lines 175-177: no list has the name of the weekday.
NoTargetList ==
  /\ pc = "advance"
  /\ ~InPast(due, current_time)
  /\ TargetLists(lists, due) = <<>>
  /\ Return(AfterCard("update", "advance", cards, l, k))
  /\ UNCHANGED <<current_time, boardVars, lists, cards, fetched,
                 relocations, repositions, gets, failures, run, left>>

\* process_card, lines 169-186: the card is sent to the list of its new due
\* date.  The Board Service sets the due date, clears dueComplete and moves
\* the card; the request names no position, so a card that changes list may
\* land anywhere in the new list.
Relocate ==
  /\ pc = "advance"
  /\ ~InPast(due, current_time)
  /\ TargetLists(lists, due) # <<>>
  /\ LET list_id == Head(TargetLists(lists, due)).identifier
         request == RelocationRequest(cards[k], due, list_id)
         c == request.card.identifier
         from == ListOf(c)
     IN /\ relocations' = Append(relocations, request)
        /\ cardData' = [cardData EXCEPT ![c].due = request.due,
                                        ![c].dueComplete = request.dueComplete]
        /\ IF from = request.idList
             THEN UNCHANGED cardsIn
             ELSE \E pos \in 1 .. Len(cardsIn[request.idList]) + 1 :
                    cardsIn' = [cardsIn EXCEPT
                                  ![from] = Without(@, c),
                                  ![request.idList] = InsertAt(@, pos, c)]
  /\ Return(AfterCard("update", "advance", cards, l, k))
  /\ UNCHANGED <<current_time, boardLists, lists, cards, fetched, repositions,
                 gets, failures, run, left>>

\* ------------------------------------------------------------------------
\* main, phase 2
\* ------------------------------------------------------------------------

\* construct_cards_to_order raises when strptime does, on any card.
ConstructRaises(response) ==
  \E i \in 1 .. Len(response) : ~StrptimeOk(response[i].due)

construct_cards_to_order(response) ==
  [i \in 1 .. Len(response) |->
     MkCardToSort(response[i].id, Strptime(response[i].due))]

\* A faulty sort: a card goes ahead of the placed cards of equal due.
NotAfterBug(a, b) == a.due < b.due

\* sort_cards, the key of the sort: a does not come after b.
NotAfter(a, b) == a.due <= b.due

\* sorted() is stable: each card goes behind the cards already placed that
\* do not come after it.
RECURSIVE SortFrom(_, _, _)
SortFrom(cs, i, acc) ==
  IF i > Len(cs) THEN acc
  ELSE LET ahead == Cardinality({j \in 1 .. Len(acc) : NotAfter(acc[j], cs[i])})
       IN SortFrom(cs, i + 1, InsertAt(acc, ahead + 1, cs[i]))

\* sort_cards
sort_cards(cs) == SortFrom(cs, 1, <<>>)

\* A faulty pos=bottom: the card is added as the last of its list and is
\* left at its old place as well.
BottomCopies(s, c) == Append(s, c)

\* A faulty line 199: the card becomes the first of its list (pos=top).
BottomBug(s, c) == <<c>> \o Without(s, c)

\* Board Service, pos=bottom: the card becomes the last of its list.
Bottom(s, c) == Append(Without(s, c), c)

\* main, line 216: the first loop over lists has ended.
StartSort ==
  /\ pc = "update"
  /\ l > Len(lists)
  /\ pc' = "sort"
  /\ l' = 1
  /\ UNCHANGED <<current_time, boardVars, lists, cards, k, fetched, due, passes,
                 relocations, repositions, gets, failures, run, left>>

\* main, lines 217-222: the next list of the second loop; its cards are
\* fetched, constructed and sorted.
FetchAndSort ==
  /\ pc = "sort"
  /\ l <= Len(lists)
  /\ LET response == ListTasks(lists[l].identifier)
     IN /\ fetched' = response
        /\ IF ConstructRaises(response)
             THEN /\ pc' = "aborted"
                  /\ UNCHANGED <<cards, l, k>>
             ELSE LET sorted == sort_cards(construct_cards_to_order(response))
                      at == AfterCard("sort", "order", sorted, l, 0)
                  IN /\ cards' = sorted
                     /\ pc' = at.pc
                     /\ l' = at.l
                     /\ k' = at.k
  /\ gets' = Append(gets, CardsRequest("sort", lists[l].identifier))
  /\ UNCHANGED <<current_time, boardVars, lists, due, passes, relocations,
                 repositions, failures, run, left>>

\* main, lines 223-224, set_card_order: the card is pushed to the bottom of
\* its list.
Reposition ==
  /\ pc = "order"
  /\ LET c == cards[k].identifier
         at == AfterCard("sort", "order", cards, l, k)
     IN /\ repositions' = Append(repositions, [card |-> cards[k], l |-> l])
        /\ cardsIn' = [cardsIn EXCEPT ![ListOf(c)] = Bottom(@, c)]
        /\ pc' = at.pc
        /\ l' = at.l
        /\ k' = at.k
  /\ UNCHANGED <<current_time, boardLists, cardData, lists, cards, fetched, due,
                 passes, relocations, gets, failures, run, left>>

\* main, line 225 for the last list: main returns.
Finish ==
  /\ pc = "sort"
  /\ l > Len(lists)
  /\ pc' = "done"
  /\ UNCHANGED <<current_time, boardVars, lists, l, cards, k, fetched, due,
                 passes, relocations, repositions, gets, failures, run, left>>

Next ==
  \/ GetLists
  \/ FetchAndFilter
  \/ Advance
  \/ AdvanceRaises
  \/ NoTargetList
  \/ Relocate
  \/ StartSort
  \/ FetchAndSort
  \/ Reposition
  \/ Finish

Spec == Init /\ [][Next]_vars

\* The run is sequential and every step is taken as soon as it can be.
FairSpec == Spec /\ WF_vars(Next)

\* ------------------------------------------------------------------------
\* Failing requests: requests.request or json.loads raises inside the
\* Requester, and the except clause of the caller takes over.  A request
\* that fails leaves the board as it is.
\* ------------------------------------------------------------------------

Failure(op, loop, list_id, c) == [op |-> op, loop |-> loop, list |-> list_id, card |-> c]

\* A faulty get_lists: the request is sent again and the lists of the
\* second answer are returned.
FailedListsBug(ls) == WeekdayLists(ls)

\* get_lists, lines 112-114: return [].
FailedLists(ls) == <<>>

\* get_lists, lines 110-114: requester.get_lists raises.
FailGetLists ==
  /\ pc = "start"
  /\ Len(failures) < MaxFaults
  /\ lists' = FailedLists(boardLists)
  /\ l' = 1
  /\ pc' = "update"
  /\ gets' = Append(gets, ListsRequest)
  /\ failures' = Append(failures, Failure("lists", "", 0, 0))
  /\ UNCHANGED <<current_time, boardVars, cards, k, fetched, due, passes,
                 relocations, repositions, run, left>>

\* get_cards, lines 125-129, in either loop of main: requester.get_cards
\* raises, get_cards returns [], and the list has no card to work on.
FailGetCards ==
  /\ pc \in {"update", "sort"}
  /\ l <= Len(lists)
  /\ Len(failures) < MaxFaults
  /\ fetched' = <<>>
  /\ cards' = <<>>
  /\ pc' = ListDone(pc, l).pc
  /\ l' = ListDone(pc, l).l
  /\ gets' = Append(gets, CardsRequest(pc, lists[l].identifier))
  /\ failures' = Append(failures, Failure("cards", pc, lists[l].identifier, 0))
  /\ UNCHANGED <<current_time, boardVars, lists, k, due, passes, relocations,
                 repositions, run, left>>

\* process_card, lines 181-185: trello_put raises, the card is given up.
FailRelocate ==
  /\ pc = "advance"
  /\ ~InPast(due, current_time)
  /\ TargetLists(lists, due) # <<>>
  /\ Len(failures) < MaxFaults
  /\ LET list_id == Head(TargetLists(lists, due)).identifier
     IN /\ relocations' = Append(relocations, RelocationRequest(cards[k], due, list_id))
        /\ failures' = Append(failures,
                              Failure("relocate", "update", lists[l].identifier,
                                      cards[k].identifier))
  /\ Return(AfterCard("update", "advance", cards, l, k))
  /\ UNCHANGED <<current_time, boardVars, lists, cards, fetched, repositions,
                 gets, run, left>>

\* set_card_order, lines 198-201: trello_put raises, the card stays where
\* it is.
FailReposition ==
  /\ pc = "order"
  /\ Len(failures) < MaxFaults
  /\ LET at == AfterCard("sort", "order", cards, l, k)
     IN /\ repositions' = Append(repositions, [card |-> cards[k], l |-> l])
        /\ failures' = Append(failures,
                              Failure("reposition", "sort", lists[l].identifier,
                                      cards[k].identifier))
        /\ pc' = at.pc
        /\ l' = at.l
        /\ k' = at.k
  /\ UNCHANGED <<current_time, boardVars, lists, cards, fetched, due, passes,
                 relocations, gets, run, left>>

\* The cards of the runs with failing requests.
FaultKinds == { kd \in CardKinds :
                  /\ kd.labels \in {{"Regular"}, {}}
                  /\ kd.due \in {Stamp(2023, 1, 1), Stamp(2023, 2, 10), NullDue}
                  /\ kd.desc \in {Notes(1, "weeks"), Notes(1, "fortnights"),
                                  NoRuleNotes} }

InitF == InitWith({ToOrdinal(2023, 1, 20)}, Boards, FaultKinds, MaxCards)

NextF ==
  \/ Next
  \/ FailGetLists
  \/ FailGetCards
  \/ FailRelocate
  \/ FailReposition

FaultSpec == InitF /\ [][NextF]_vars

FairFaultSpec == FaultSpec /\ WF_vars(NextF)

\* ------------------------------------------------------------------------
\* A second run of the job on the board the first run left, at the same
\* current_time
\* ------------------------------------------------------------------------

Rerun ==
  /\ pc = "done"
  /\ run = 1
  /\ run' = 2
  /\ left' = [cardsIn |-> cardsIn, cardData |-> cardData]
  /\ pc' = "start"
  /\ lists' = <<>>
  /\ l' = 0
  /\ cards' = <<>>
  /\ k' = 0
  /\ fetched' = <<>>
  /\ due' = 0
  /\ passes' = 0
  /\ relocations' = <<>>
  /\ repositions' = <<>>
  /\ gets' = <<>>
  /\ UNCHANGED <<current_time, boardVars, failures>>

\* The boards a second run is looked at on hold one card more, so that a
\* list can hold a card between two others.
RerunCards == MaxCards + 1

\* The cards of these boards: past-due cards labelled "Regular" with
\* different dues, one with a rule, one with a unit that is no period unit,
\* one without a rule; and a card that is not due.
RerunKinds ==
  { [labels |-> {"Regular"}, due |-> Stamp(2023, 1, 1), desc |-> Notes(1, "weeks")],
    [labels |-> {"Regular"}, due |-> Stamp(2023, 1, 2), desc |-> NoRuleNotes],
    [labels |-> {"Regular"}, due |-> Stamp(2023, 1, 3), desc |-> Notes(1, "fortnights")],
    [labels |-> {"Regular"}, due |-> Stamp(2023, 2, 5), desc |-> Notes(1, "weeks")] }

InitR == InitWith({ToOrdinal(2023, 1, 20)}, Boards, RerunKinds, RerunCards)

NextR == Next \/ Rerun

RerunSpec == InitR /\ [][NextR]_vars

\* ------------------------------------------------------------------------
\* Properties
\* ------------------------------------------------------------------------

\* The while loop of process_card has ended for cards[k]: due is its result.
Advanced == pc = "advance" /\ due >= current_time

\* A rule the Advancer is specified for: a positive count of a relative unit.
ValidRule(c) == c.period_len > 0 /\ c.period_type \in RelativeUnits

\* The period added to d again and again until the sum is not before now.
RECURSIVE RepeatedAddition(_, _, _, _)
RepeatedAddition(d, period_type, period_len, now) ==
  LET next == AddRelativeDelta(d, period_type, period_len)
  IN IF next >= now THEN next
     ELSE RepeatedAddition(next, period_type, period_len, now)

\* The length in days of a period of a fixed-length unit.
PeriodDays(c) == IF c.period_type = "weeks" THEN 7 * c.period_len ELSE c.period_len

\* C1 as stated: for a past due and a valid rule the advanced due is
\* due + k * period for the smallest k >= 1 that makes it >= now, and it is
\* strictly less than now + one period.
C1_Original ==
  (Advanced /\ ValidRule(cards[k])) =>
    LET c == cards[k]
        Plus(n) == AddRelativeDelta(c.due, c.period_type, n * c.period_len)
    IN /\ \E n \in 1 .. (current_time - c.due) :
            /\ due = Plus(n)
            /\ \A j \in 1 .. n - 1 : Plus(j) < current_time
       /\ due >= current_time
       /\ due < AddRelativeDelta(current_time, c.period_type, c.period_len)

\* C1 as amended: for a past due and a valid rule the advanced due is the
\* result of adding the period again and again, as often as it takes (at
\* least once) to be >= now; for the fixed-length units (days, weeks) this is
\* due + k * period for the smallest such k, and strictly less than now + one
\* period.
C1_Advancer ==
  (Advanced /\ ValidRule(cards[k])) =>
    LET c == cards[k] IN
    /\ due >= current_time
    /\ due = RepeatedAddition(c.due, c.period_type, c.period_len, current_time)
    /\ c.period_type \in {"days", "weeks"} =>
         /\ due = c.due + PeriodDays(c) *
                    ((current_time - c.due + PeriodDays(c) - 1) \div PeriodDays(c))
         /\ due < current_time + PeriodDays(c)

\* The example of the specification: due 2023-01-01, rule "1 weeks", now
\* 2023-01-20, advanced to 2023-01-22.
C1_Witness ==
  /\ Advanced
  /\ current_time = ToOrdinal(2023, 1, 20)
  /\ cards[k].due = ToOrdinal(2023, 1, 1)
  /\ cards[k].period_len = 1
  /\ cards[k].period_type = "weeks"
  /\ due = ToOrdinal(2023, 1, 22)

\* C2: process_card terminates for every card the filter passes on, so the
\* run always comes to its end; a card whose count is not positive or whose
\* unit is no period unit is never relocated.
C2_Terminates ==
  /\ <>(pc \in {"done", "aborted"})
  /\ [](\A i \in 1 .. Len(relocations) : ValidRule(relocations[i].card))

\* C3: a card whose due or notes do not parse never aborts the run.
C3_NeverAborts == pc # "aborted"

\* C4: a card whose notes hold no recurrence rule is not in the output of
\* the filter and is never relocated.
C4_NoRuleNotEligible ==
  /\ pc = "advance" => \A i \in 1 .. Len(cards) : cardData[cards[i].identifier].desc.matches
  /\ \A i \in 1 .. Len(relocations) : cardData[relocations[i].card.identifier].desc.matches

\* C5: the output of filter_out_cards holds only cards of the response that
\* carry a label named exactly "Regular" and whose due is strictly before
\* now.
C5_FilterExact ==
  pc \in {"advance", "update"} =>
    \A i \in 1 .. Len(cards) :
      \E j \in 1 .. Len(fetched) :
        /\ fetched[j].id = cards[i].identifier
        /\ "Regular" \in fetched[j].labels
        /\ StrptimeOk(fetched[j].due)
        /\ Strptime(fetched[j].due) < current_time
        /\ Strptime(fetched[j].due) = cards[i].due

\* The filter kept a card and dropped another one that lacks the label or
\* is not yet due.
C5_Witness ==
  /\ pc = "advance"
  /\ Len(cards) = 1
  /\ \E j \in 1 .. Len(fetched) :
       /\ fetched[j].id # cards[1].identifier
       /\ \/ "Regular" \notin fetched[j].labels
          \/ StrptimeOk(fetched[j].due) /\ Strptime(fetched[j].due) >= current_time

\* The weekday name of a day, counted from Monday 2023-01-02.
DayName(n) == list_names[((n - ToOrdinal(2023, 1, 2)) % 7) + 1]

\* The fetched lists are the seven weekday lists, one per name.
SevenLists ==
  /\ Len(lists) = 7
  /\ \A i \in 1 .. 7 : \E j \in 1 .. 7 : lists[j].name = list_names[i]

\* The name of the list of the board with an identifier.
NameOf(list_id) == boardLists[list_id].name

\* C6: with the seven weekday lists fetched, routing an advanced due finds a
\* list, and every relocation names the list whose name is the weekday of the
\* due it carries.
C6_Router ==
  SevenLists =>
    /\ Advanced => TargetLists(lists, due) # <<>>
    /\ \A i \in 1 .. Len(relocations) :
         NameOf(relocations[i].idList) = DayName(Strptime(relocations[i].due))

\* The example of the specification: the card advanced to 2023-01-22 is sent
\* to the Sunday list.
C6_Witness ==
  /\ SevenLists
  /\ \E i \in 1 .. Len(relocations) :
       /\ relocations[i].due = Stamp(2023, 1, 22)
       /\ NameOf(relocations[i].idList) = "Sunday"

\* The last relocation of a card, if it has one.
LastRelocation(c) ==
  LET of == {i \in 1 .. Len(relocations) : relocations[i].card.identifier = c}
  IN CHOOSE i \in of : \A j \in of : j <= i

\* C7: every relocation carries the Advancer's result for its card as due,
\* dueComplete = false and the list the Router returns for that due, which is
\* not before now and whose weekday is the name of the list; the board holds
\* these values for the card.
C7_Relocation ==
  \A i \in 1 .. Len(relocations) :
    LET r == relocations[i]
        c == r.card
    IN /\ StrptimeOk(r.due)
       /\ r.due = Strftime(RepeatedAddition(c.due, c.period_type, c.period_len,
                                            current_time))
       /\ Strptime(r.due) >= current_time
       /\ r.dueComplete = FALSE
       /\ r.idList = Head(TargetLists(lists, Strptime(r.due))).identifier
       /\ NameOf(r.idList) = DayName(Strptime(r.due))
       /\ i = LastRelocation(c.identifier) =>
            /\ cardData[c.identifier].due = r.due
            /\ cardData[c.identifier].dueComplete = FALSE
            /\ ListOf(c.identifier) = r.idList

\* The card of the first list was relocated to another list.
C7_Witness ==
  /\ pc = "update"
  /\ l = 2
  /\ Len(relocations) = 1
  /\ relocations[1].idList # lists[1].identifier
  /\ ListOf(relocations[1].card.identifier) = relocations[1].idList
  /\ cardData[relocations[1].card.identifier].due = relocations[1].due

\* The last fetch of phase 2 shows every card relocated to the list in
\* hand, with the due of its relocation.
FetchReflectsRelocations ==
  pc = "order" =>
    \A i \in 1 .. Len(relocations) :
      relocations[i].idList = lists[l].identifier =>
        \E j \in 1 .. Len(fetched) :
          /\ fetched[j].id = relocations[i].card.identifier
          /\ fetched[j].due = relocations[i].due

\* C8: no relocation is issued once a reposition has been issued, phase 2
\* starts only when phase 1 is through with every list, and what phase 2
\* fetches reflects the relocations.
C8_PhaseOrder ==
  /\ [][relocations' # relocations => repositions = <<>>]_vars
  /\ [][(pc \in {"update", "advance"} /\ pc' \notin {"update", "advance", "aborted"})
         => (pc = "update" /\ l > Len(lists) /\ pc' = "sort")]_vars
  /\ [][(pc \in {"sort", "order"}) => (pc' \in {"sort", "order", "done", "aborted"})]_vars
  /\ []FetchReflectsRelocations

\* A relocated card is repositioned in the list it was sent to.
C8_Witness ==
  /\ relocations # <<>>
  /\ \E i \in 1 .. Len(repositions) :
       /\ repositions[i].card.identifier = relocations[1].card.identifier
       /\ lists[repositions[i].l].identifier = relocations[1].idList

\* The place of a card in the last response.
PlaceFetched(c) == CHOOSE j \in 1 .. Len(fetched) : fetched[j].id = c

\* The repositions issued in the pass over lists[x], oldest first.
RepositionsOf(x) == LET In(r) == r.l = x IN SelectSeq(repositions, In)

C10_SortedBoard ==
  pc \in {"sort", "order", "done"} =>
    \A x \in 1 .. Len(lists) :
      (x < l \/ pc = "done") =>
        LET there == cardsIn[lists[x].identifier]
        IN \A i, j \in 1 .. Len(there) :
             i < j => DueOf(there[i]) <= DueOf(there[j])

\* A list that held the later card above the earlier one ends with the
\* earlier one on top.
C10_Witness ==
  /\ pc = "done"
  /\ relocations = <<>>
  /\ \E x \in 1 .. Len(lists) :
       /\ cardsIn[lists[x].identifier] = <<2, 1>>
       /\ DueOf(2) < DueOf(1)

\* The request for the lists failed.
ListsFailed == failures # <<>> /\ failures[1].op = "lists"

\* C11: when the request for the lists fails the run goes on with no list:
\* the only request it ever sends is that one, the board stays as it is, and
\* the run ends without an exception.
C11_DegradeToEmpty ==
  /\ [](ListsFailed =>
          /\ lists = <<>>
          /\ gets = <<ListsRequest>>
          /\ relocations = <<>>
          /\ repositions = <<>>
          /\ pc \in {"update", "sort", "done"})
  /\ [][ListsFailed' => UNCHANGED boardVars]_vars
  /\ (ListsFailed ~> pc = "done")

\* The request for the lists failed on a board with a card to relocate, and
\* the run has ended.
C11_Witness ==
  /\ ListsFailed
  /\ pc = "done"
  /\ \E c \in DOMAIN cardData :
       /\ IsRegular(cardData[c])
       /\ cardData[c].due = Stamp(2023, 1, 1)
       /\ cardData[c].desc = Notes(1, "weeks")

\* The request for the cards of a list failed in a loop of main.
FailedFetch(loop, list_id) ==
  \E i \in 1 .. Len(failures) :
    failures[i].op = "cards" /\ failures[i].loop = loop /\ failures[i].list = list_id

\* A request of kind op for a card failed.
FailedPut(op, c) ==
  \E i \in 1 .. Len(failures) : failures[i].op = op /\ failures[i].card = c

\* A card of the board that phase 1 has to relocate: labelled "Regular", in
\* a fetched list, past due, with a rule of its own that leads to a fetched
\* list.
StillDue(c) ==
  LET d == cardData[c] IN
  /\ \E x \in 1 .. Len(lists) : lists[x].identifier = ListOf(c)
  /\ IsRegular(d)
  /\ StrptimeOk(d.due)
  /\ Strptime(d.due) < current_time
  /\ d.desc.matches
  /\ d.desc.num > 0
  /\ d.desc.unit \in RelativeUnits
  /\ TargetLists(lists, RepeatedAddition(Strptime(d.due), d.desc.unit, d.desc.num,
                                         current_time)) # <<>>

\* A failing request changes nothing on the board and raises nothing in
\* main.
C12_FailureStep ==
  [][failures' # failures => (UNCHANGED boardVars /\ pc' # "aborted")]_vars

\* After phase 1 a card is still to relocate only if the request for the
\* cards of its own list or its own relocation failed.
C12_Phase1Isolated ==
  pc \in {"sort", "order", "done"} =>
    \A c \in DOMAIN cardData :
      StillDue(c) => FailedFetch("update", ListOf(c)) \/ FailedPut("relocate", c)

\* At the end of the run every card of a list whose cards were fetched in
\* phase 2 has got its reposition request, and the list is in order of due
\* unless one of these requests failed.
C12_Phase2Isolated ==
  pc = "done" =>
    \A x \in 1 .. Len(lists) :
      LET there == cardsIn[lists[x].identifier] IN
      ~FailedFetch("sort", lists[x].identifier) =>
        /\ \A c \in SeqToSet(there) :
             \E i \in 1 .. Len(repositions) :
               repositions[i].l = x /\ repositions[i].card.identifier = c
        /\ (\A c \in SeqToSet(there) : ~FailedPut("reposition", c)) =>
             \A i, j \in 1 .. Len(there) :
               i < j => DueOf(there[i]) <= DueOf(there[j])

\* C12: a failing request costs only its own list or card: nothing else is
\* left undone in either phase, and the run comes to its end.
C12_FailureIsolation ==
  /\ C12_FailureStep
  /\ []C12_Phase1Isolated
  /\ []C12_Phase2Isolated
  /\ (failures # <<>> ~> pc = "done")

\* A fetched list has the name.
HasList(name) == \E x \in 1 .. Len(lists) : lists[x].name = name

\* The requests to relocate card c, oldest first.
RelocationsOf(c) == LET Of(r) == r.card.identifier = c IN SelectSeq(relocations, Of)

\* C13: when no fetched list has the weekday name of the advanced due, the
\* card is skipped: the step sends no relocation and leaves the board as it
\* is, no relocation ever carries a due whose weekday list was not fetched,
\* and a card without a relocation keeps its completed flag.
C13_RouterFailure ==
  /\ [][(Advanced /\ ~HasList(DayName(due))) =>
          /\ relocations' = relocations
          /\ UNCHANGED boardVars
          /\ pc' \in {"advance", "update"}
          /\ (pc' = "advance") => (l' = l /\ k' = k + 1)]_vars
  /\ [](\A i \in 1 .. Len(relocations) :
          HasList(DayName(Strptime(relocations[i].due))))
  /\ [](\A c \in DOMAIN cardData :
          RelocationsOf(c) = <<>> => cardData[c].dueComplete)

\* Phase 1 is over without a relocation, and a list holds a past-due card
\* with a rule of its own that leads to a weekday whose list is missing.
C13_Witness ==
  /\ pc = "sort"
  /\ relocations = <<>>
  /\ \E c \in DOMAIN cardData :
       LET d == cardData[c] IN
       /\ HasList(NameOf(ListOf(c)))
       /\ IsRegular(d)
       /\ d.desc = Notes(1, "weeks")
       /\ d.due = Stamp(2023, 1, 1)
       /\ ~HasList(DayName(RepeatedAddition(Strptime(d.due), "weeks", 1, current_time)))

\* The requests sent so far that equal q.
Sent(q) == LET Same(x) == x = q IN SelectSeq(gets, Same)

\* C14: no card gets more than one relocation request in a run, whether the
\* request failed or moved the card to a list still to come; the lists are
\* requested exactly once, and the cards of a list at most once in each loop
\* of main.
C14_NoRetry ==
  /\ \A c \in DOMAIN cardData : Len(RelocationsOf(c)) <= 1
  /\ Len(Sent(ListsRequest)) = IF pc = "start" THEN 0 ELSE 1
  /\ \A x \in DOMAIN boardLists :
       \A loop \in {"update", "sort"} : Len(Sent(CardsRequest(loop, x))) <= 1

\* Phase 1 is over: the first card relocated went from the first list to the
\* last one, which was fetched after that; the relocation of a second card of
\* the first list failed; each of the two got one request.
C14_Witness ==
  /\ pc = "sort"
  /\ Len(relocations) = 2
  /\ relocations[1].card.identifier # relocations[2].card.identifier
  /\ relocations[1].idList = lists[Len(lists)].identifier
  /\ ListOf(relocations[1].card.identifier) = relocations[1].idList
  /\ Len(lists) > 1
  /\ failures = <<Failure("relocate", "update", lists[1].identifier,
                          relocations[2].card.identifier)>>
  /\ Len(Sent(CardsRequest("update", relocations[1].idList))) = 1

\* How often card c is in the sequence s.
CountIn(s, c) == Cardinality({i \in DOMAIN s : s[i] = c})

\* C15: in phase 2 no step changes the due, the completed flag or the list
\* of a card, every list keeps its cards, each as often as before, and no
\* relocation is sent; a reposition changes the place of its own card only,
\* within the list the card is in.
C15_Phase2Frame ==
  /\ [][(pc \in {"sort", "order"}) =>
          /\ cardData' = cardData
          /\ relocations' = relocations
          /\ \A x \in DOMAIN cardsIn :
               \A c \in DOMAIN cardData :
                 CountIn(cardsIn'[x], c) = CountIn(cardsIn[x], c)]_vars
  /\ [][(repositions' # repositions) =>
          LET c == repositions'[Len(repositions')].card.identifier IN
          \A x \in DOMAIN cardsIn :
            /\ Without(cardsIn'[x], c) = Without(cardsIn[x], c)
            /\ x # ListOf(c) => cardsIn'[x] = cardsIn[x]]_vars

\* The first reposition of a list of two cards has put the upper card below
\* the other one.
C15_Witness ==
  /\ pc = "order"
  /\ k = 2
  /\ Len(fetched) = 2
  /\ Len(RepositionsOf(l)) = 1
  /\ cardsIn[lists[l].identifier] = <<fetched[2].id, fetched[1].id>>

\* The list with the identifier has one of the seven weekday names.
Canonical(list_id) == NameOf(list_id) \in SeqToSet(list_names)

\* C16: a list of the board whose name is none of the seven weekday names
\* is not among the lists of the run, its cards are never requested, no
\* relocation names it, and a card in it gets neither a relocation nor a
\* reposition and stays as it is.
C16_OtherListsIgnored ==
  /\ \A x \in 1 .. Len(lists) : Canonical(lists[x].identifier)
  /\ \A i \in 1 .. Len(gets) : gets[i].op = "cards" => Canonical(gets[i].list)
  /\ \A i \in 1 .. Len(relocations) : Canonical(relocations[i].idList)
  /\ \A c \in DOMAIN cardData :
       ~Canonical(ListOf(c)) =>
         /\ RelocationsOf(c) = <<>>
         /\ \A i \in 1 .. Len(repositions) : repositions[i].card.identifier # c
         /\ cardData[c].dueComplete

\* The run has ended, a card of a weekday list was relocated, and a past-due
\* card with the same rule is in the Backlog list.
C16_Witness ==
  /\ pc = "done"
  /\ relocations # <<>>
  /\ relocations[1].card.period_type = "weeks"
  /\ \E c \in DOMAIN cardData :
       /\ NameOf(ListOf(c)) = "Backlog"
       /\ IsRegular(cardData[c])
       /\ cardData[c].due = Stamp(2023, 1, 1)
       /\ cardData[c].desc = Notes(1, "weeks")

\* The first loop of main has ended and the second has not begun.
Phase1Complete == pc = "update" /\ l > Len(lists)

\* The notes of a card of the board hold a rule with a positive count and a
\* relative unit.
HasValidRule(c) ==
  /\ cardData[c].desc.matches
  /\ cardData[c].desc.num > 0
  /\ cardData[c].desc.unit \in RelativeUnits

\* C17: with the seven weekday lists fetched, at the end of phase 1 no
\* weekday list holds a card labelled "Regular" with a due that parses, a
\* valid rule and a due before now, and every card relocated in the run is in
\* the list named for the weekday of the due it has now.
C17_Phase1End ==
  (Phase1Complete /\ SevenLists) =>
    /\ \A c \in DOMAIN cardData :
         ( /\ Canonical(ListOf(c))
           /\ IsRegular(cardData[c])
           /\ StrptimeOk(cardData[c].due)
           /\ HasValidRule(c) ) => DueOf(c) >= current_time
    /\ \A i \in 1 .. Len(relocations) :
         LET c == relocations[i].card.identifier
         IN /\ StrptimeOk(cardData[c].due)
            /\ NameOf(ListOf(c)) = DayName(DueOf(c))

\* Phase 1 has ended on a board with the seven lists after relocating two
\* cards with rules of their own, one of them a rule in months.
C17_Witness ==
  /\ Phase1Complete
  /\ SevenLists
  /\ Len(relocations) = 2
  /\ HasValidRule(1)
  /\ HasValidRule(2)
  /\ \E c \in {1, 2} : cardData[c].desc.unit = "months"

\* C18: a second run at the same now on the board a first run without
\* failing requests left sends no relocation, and at its end the order of
\* every list and the due and the list of every card are as the first run
\* left them.
C18_Idempotent ==
  run = 2 =>
    /\ relocations = <<>>
    /\ pc = "done" => (cardsIn = left.cardsIn /\ cardData = left.cardData)

====
